---- MODULE Spec2Model ----
(***************************************************************************)
(* Akimori backend: the economy ledger (economy/services.py), the shop     *)
(* purchase handler (shop/views.py) and the promo-code reservation state   *)
(* machine (promo/services.py, promo/models.py), over a relational         *)
(* database with READ COMMITTED transactions, row locks and unique         *)
(* indexes.                                                                *)
(*                                                                         *)
(* The committed database is balance, ledger, inventory, purchases and     *)
(* limited_sold.  A request runs inside one database transaction: its      *)
(* writes are buffered in the request's own state (wbal, rows) and reach   *)
(* the committed database only in Commit; any exception discards them.     *)
(***************************************************************************)
EXTENDS Integers, Sequences, FiniteSets, TLC

\* ---------------------------------------------------------------- bounds
MaxCalls == 2

\* ------------------------------------------------------------ the domain
Procs == {1, 2}
Users == {1, 2}
\* wallet 1: user 1 AKI, wallet 2: user 2 AKI, wallet 3: user 1 RUB
Wallets == {1, 2, 3}
AkiWallets == {1, 2}
currency(w) == IF w = 3 THEN "RUB" ELSE "AKI"
wallet_user(w) == IF w = 2 THEN 2 ELSE 1
aki_wallet(u) == u

NoKey == "none"
\* f"shop:buy:{user.id}:{offer.id}:{item.id}:{price}": one key per buyer of the offer
ShopKey(u) == IF u = 1 THEN "shop1" ELSE "shop2"
Keys == {"k1", "k2", "shop1", "shop2"}
Amounts == {0, 1, 2}
NoProc == 0

\* economy/models.py: TxType
DEPOSIT == "deposit"
WITHDRAW == "withdraw"
TRANSFER_OUT == "transfer_out"
TRANSFER_IN == "transfer_in"

VARIABLES
    balance,      \* Wallet.balance, committed
    ledger,       \* Transaction rows, committed, in commit order; a row's id is its index
    lockOwner,    \* row lock of each wallet (select_for_update)
    pc,           \* each request's position
    call,         \* each request's operation and arguments
    scan,         \* wallets the locking query of the request has still to lock
    wbal,         \* the request's in-memory Wallet objects (balance read under lock, then updated)
    rows,         \* Transaction rows the request has inserted and not yet committed
    inventory,    \* Inventory rows of the item on offer: the users who own it, committed
    purchases,    \* Purchase rows, committed
    limited_sold, \* Item.limited_sold, committed
    limited_total,\* Item.limited_total, set in the admin and never written by a handler
    reuse,        \* purchase: the existing ledger row its withdraw returned, 0 when it made one
    last,         \* the call that ended last, and its outcome
    ncalls,       \* number of calls started
    promo,        \* the PromoCode row and its effect
    redemptions,  \* PromoRedemption rows, in creation order; a row's id is its index
    now,          \* timezone.now(), in minutes
    plast,        \* the promo call that ended last, and its outcome
    pjob,         \* each concurrent promo request: its operation, the lock it waits for or holds
    net,          \* per wallet: sum of the signed amounts of the calls that committed
    keyUses,      \* per idempotency key: number of committed calls that carried it
    levels,       \* the last two calls of level_for_xp: argument and result
    profile_xp,   \* Profile.xp of each user, stored
    profile,      \* the Profile object each request has loaded: its user and its xp
    xlast,        \* the add_xp call that ended last: the request, the amount, the object's xp before
    nxp,          \* number of add_xp calls
    participants, \* Participant rows: <<conversation, user>>
    conn,         \* each WebSocket connection: its scope and how far connect() got
    group,        \* channel layer: the connections of each conversation's group
    messages,     \* Message rows, in creation order; a row's id is its index
    chan,         \* channel layer: the group events queued for each connection
    sent,         \* the frames each connection has sent to its client
    job,          \* receive_json between save_message and group_send: the payload
    clast,        \* the frame a consumer received last
    nframes       \* number of frames received

vars == <<balance, ledger, lockOwner, pc, call, scan, wbal, rows, inventory, purchases,
          limited_sold, reuse, last, ncalls, net, keyUses, promo, redemptions, now, plast,
          pjob, limited_total, levels, profile_xp, profile, xlast, nxp, participants, conn,
          group, messages, chan, sent, job, clast, nframes>>
chats == <<participants, conn, group, messages, chan, sent, job, clast, nframes>>
profiles == <<profile_xp, profile, xlast, nxp>>
\* what the economy and promo handlers never touch
apart == <<limited_total, levels, profiles, chats>>
economy == <<lockOwner, pc, call, scan, wbal, rows, purchases, limited_sold, reuse, last, ncalls,
             keyUses, apart>>
promos == <<promo, redemptions, now, plast, pjob, apart>>
shop == <<inventory, purchases, limited_sold>>

NoCall == [op |-> "none", wallet |-> 0, to |-> 0, amount |-> 0, key |-> NoKey, key_in |-> NoKey]
NoBalance == [from |-> 0, to |-> 0]
\* the outcome of a call: "ok" with the id of the row it created, "existing"
\* with the id of the row it found, or the exception (or refusal) it ended with
Ended(c, status, row) == [op |-> c.op, key |-> c.key, status |-> status, row |-> row]

\* ------------------------------------------------------ economy/models.py

\* normalize_amount: the integer value, rejected when <= 0
amount_valid(amount) == amount > 0

can_debit_any(bal, amount) == amount > 0
can_debit(bal, amount) == amount > 0 /\ bal >= amount

\* CheckConstraint wallet_balance_non_negative
wallet_balance_non_negative(bal) == bal >= 0

\* The initial database: wallets 1 and 2 funded by one keyless deposit each.
InitBalance == [w \in Wallets |-> IF w = 1 THEN 2 ELSE IF w = 2 THEN 1 ELSE 0]
InitLedger ==
    << [wallet |-> 1, tx_type |-> DEPOSIT, amount |-> 2, key |-> NoKey, related_tx |-> 0],
       [wallet |-> 2, tx_type |-> DEPOSIT, amount |-> 1, key |-> NoKey, related_tx |-> 0] >>

\* ------------------------------------------------------------- the ledger

Signed(row) == IF row.tx_type \in {DEPOSIT, TRANSFER_IN} THEN row.amount ELSE 0 - row.amount

RECURSIVE LedgerSum(_, _, _)
LedgerSum(l, w, i) ==
    IF i = 0 THEN 0
    ELSE (IF l[i].wallet = w THEN Signed(l[i]) ELSE 0) + LedgerSum(l, w, i - 1)

RowsWithKey(l, k) == {i \in 1..Len(l) : l[i].key = k}

\* Transaction.objects.filter(idempotency_key=key).first(): 0 when there is none
FirstWithKey(k) ==
    IF RowsWithKey(ledger, k) = {} THEN 0
    ELSE CHOOSE i \in RowsWithKey(ledger, k) : \A j \in RowsWithKey(ledger, k) : i <= j

\* ...filter(idempotency_key=idem_out, tx_type=TRANSFER_OUT).first()
FirstOutWithKeyNone(k) == 0
FirstOutWithKey(k) ==
    LET s == {i \in RowsWithKey(ledger, k) : ledger[i].tx_type = TRANSFER_OUT}
    IN IF s = {} THEN 0 ELSE CHOOSE i \in s : \A j \in s : i <= j

\* `if idempotency_key: existing = ...first()`: the existing row of the call, or 0
ExistingIgnored(c) == 0
Existing(c) ==
    IF c.key = NoKey THEN 0
    ELSE IF c.op = "transfer" THEN FirstOutWithKey(c.key)
    ELSE FirstWithKey(c.key)

\* the parameter comparison of the idempotency branch
SameOperation(row, c) ==
    IF c.op = "transfer" THEN row.wallet = c.wallet /\ row.amount = c.amount
    ELSE /\ row.wallet = c.wallet
         /\ row.tx_type = (IF c.op = "deposit" THEN DEPOSIT ELSE WITHDRAW)
         /\ row.amount = c.amount

\* ------------------------------------------------------------ row locks

\* the Offer row and the Item row, locked by the purchase view
OfferRow == 4
ItemRow == 5
LockRows == Wallets \cup {OfferRow, ItemRow}

LockFreeAlways(w, p) == TRUE
LockFree(w, p) == lockOwner[w] \in {NoProc, p}

Release(p) == [w \in LockRows |-> IF lockOwner[w] = p THEN NoProc ELSE lockOwner[w]]

\* the unique index on Transaction.idempotency_key: a committed row with the key
KeyCommittedNever(k) == FALSE
KeyCommitted(k) == k # NoKey /\ RowsWithKey(ledger, k) # {}

\* an uncommitted row of another request carries the key: the insert waits
KeyPendingElsewhere(k, p) ==
    k # NoKey /\ \E q \in Procs \ {p} : \E i \in 1..Len(rows[q]) : rows[q][i].key = k

KeyPendingOwn(k, p) == k # NoKey /\ \E i \in 1..Len(rows[p]) : rows[p][i].key = k

\* ---------------------------------------------------------- the requests

\* the request ends with an exception: the transaction is rolled back
Abort(p, e) ==
    /\ pc' = [pc EXCEPT ![p] = "done"]
    /\ last' = Ended(call[p], e, 0)
    /\ call' = [call EXCEPT ![p] = NoCall]
    /\ lockOwner' = Release(p)
    /\ rows' = [rows EXCEPT ![p] = <<>>]
    /\ scan' = [scan EXCEPT ![p] = <<>>]
    /\ wbal' = [wbal EXCEPT ![p] = NoBalance]
    /\ reuse' = [reuse EXCEPT ![p] = 0]
    /\ UNCHANGED <<balance, ledger, shop, net, keyUses, ncalls>>

\* A view calls deposit, withdraw or transfer.  The argument checks that come
\* before the first query (currency, same wallet, normalize_amount) are part
\* of the call step.
CallArgsError(c) ==
    IF c.op = "transfer" /\ currency(c.wallet) # currency(c.to) THEN "ValidationError"
    ELSE IF c.op = "transfer" /\ c.wallet = c.to THEN "ValidationError"
    ELSE IF ~amount_valid(c.amount) THEN "ValidationError"
    ELSE "none"

\* ------------------------------------------------- the shop (shop/models.py)

\* the one offer of the shop and its item
Item == [price_aki |-> 2, limited_total |-> limited_total, is_active |-> TRUE]
Offer == [is_active |-> TRUE, has_override |-> TRUE, price_override_aki |-> 1, in_window |-> TRUE]

current_price_of_item == Item.price_aki
current_price == IF Offer.has_override THEN Offer.price_override_aki ELSE Item.price_aki

can_sell_now(sold) ==
    /\ Item.is_active
    /\ Item.price_aki > 0
    /\ ~(sold >= Item.limited_total)

is_selling_now(sold) ==
    /\ Offer.is_active
    /\ can_sell_now(sold)
    /\ Offer.in_window
    /\ current_price > 0

\* Inventory.objects.filter(user=..., item=item).exists()
OwnsNever(u) == FALSE
Owns(u) == u \in inventory

\* the availability checks of PurchaseView.post, in order
PurchaseRefusal(u) ==
    IF ~is_selling_now(limited_sold) THEN "not_selling"
    ELSE IF Owns(u) THEN "already_owned"
    ELSE IF limited_sold >= Item.limited_total THEN "limit_reached"
    ELSE IF current_price <= 0 THEN "not_for_sale"
    ELSE "none"

\* the withdraw that PurchaseView.post makes on the buyer's AKI wallet
PurchaseCall(u) ==
    [op |-> "purchase", wallet |-> aki_wallet(u), to |-> 0, amount |-> current_price,
     key |-> ShopKey(u), key_in |-> NoKey]

IsDebit(c) == c.op \in {"withdraw", "purchase", "buy"}

Calls ==
    [op : {"deposit", "withdraw"}, wallet : AkiWallets, to : {0}, amount : Amounts,
     key : {NoKey, "k1"}, key_in : {NoKey}]
    \cup
    [op : {"transfer"}, wallet : AkiWallets, to : Wallets, amount : Amounts \ {0},
     key : {NoKey, "k1"}, key_in : {NoKey, "k2"}]
    \cup
    {PurchaseCall(u) : u \in Users}

\* Requests are interchangeable: a new call is taken by the first idle one.
Call(p) ==
    /\ pc[p] = "done"
    /\ \A q \in Procs : q < p => pc[q] # "done"
    /\ ncalls < MaxCalls
    /\ \E c \in Calls :
        IF CallArgsError(c) # "none"
        THEN /\ last' = Ended(c, CallArgsError(c), 0)
             /\ UNCHANGED <<pc, call>>
        ELSE /\ pc' = [pc EXCEPT ![p] = IF c.op = "purchase" THEN "offer" ELSE "idem"]
             /\ call' = [call EXCEPT ![p] = c]
             /\ UNCHANGED last
    /\ ncalls' = ncalls + 1
    /\ UNCHANGED <<balance, ledger, lockOwner, scan, wbal, rows, shop, reuse, net, keyUses>>

\* PurchaseView.post up to the withdraw: the row locks on the offer and on its
\* item (only this view locks the item, and only while it holds the offer),
\* then the availability checks.  A refusal is a response, not an exception:
\* the transaction commits with nothing written.
LockOffer(p) ==
    /\ pc[p] = "offer"
    /\ LockFree(OfferRow, p)
    /\ LockFree(ItemRow, p)
    /\ LET u == wallet_user(call[p].wallet)
       IN IF PurchaseRefusal(u) # "none"
          THEN Abort(p, PurchaseRefusal(u))
          ELSE /\ lockOwner' = [lockOwner EXCEPT ![OfferRow] = p, ![ItemRow] = p]
               /\ pc' = [pc EXCEPT ![p] = "idem"]
               /\ UNCHANGED <<balance, ledger, scan, wbal, rows, shop, reuse, call, last,
                              ncalls, net, keyUses>>

\* The idempotency branch: an existing row with the key ends the call,
\* either returned or refused.  Otherwise the call goes on to lock its
\* wallets; the order in which the locking query of transfer visits the two
\* rows is the database's choice (the query has no ORDER BY).
LockOrders(c) ==
    IF c.op = "transfer" THEN {<<c.wallet, c.to>>, <<c.to, c.wallet>>}
    ELSE {<<c.wallet>>}

IdemCheck(p) ==
    /\ pc[p] = "idem"
    /\ LET c == call[p]
           e == Existing(c)
       IN IF e # 0 /\ ~SameOperation(ledger[e], c)
          THEN Abort(p, "ValidationError")
          ELSE IF e # 0 /\ c.op = "purchase"
          THEN /\ pc' = [pc EXCEPT ![p] = "commit"]
               /\ reuse' = [reuse EXCEPT ![p] = e]
               /\ UNCHANGED <<balance, ledger, lockOwner, scan, wbal, rows, shop, call,
                              last, ncalls, net, keyUses>>
          ELSE IF e # 0
          THEN /\ pc' = [pc EXCEPT ![p] = "done"]
               /\ last' = Ended(c, "existing", e)
               /\ call' = [call EXCEPT ![p] = NoCall]
               /\ UNCHANGED <<balance, ledger, lockOwner, scan, wbal, rows, shop, reuse,
                              ncalls, net, keyUses>>
          ELSE /\ pc' = [pc EXCEPT ![p] = "lock"]
               /\ \E o \in LockOrders(c) : scan' = [scan EXCEPT ![p] = o]
               /\ UNCHANGED <<balance, ledger, lockOwner, wbal, rows, shop, reuse, call,
                              last, ncalls, net, keyUses>>

\* the in-memory wallets after the balance updates of the call
Debited(bal, amount) == bal - amount
Credited(bal, amount) == bal + amount

\* The debit of the source wallet: can_debit guards it in the service, and
\* the CHECK constraint of the table guards wallet.save().
DebitUnguarded(bal, amount) == "ok"
DebitOutcome(bal, amount) ==
    IF ~can_debit(bal, amount) THEN "InsufficientFunds"
    ELSE IF ~wallet_balance_non_negative(Debited(bal, amount)) THEN "IntegrityError"
    ELSE "ok"

\* The row lock on the next wallet of the locking query, and the read of its
\* balance.  Once the last lock is held the call checks the funds and saves
\* the source wallet (buffered until commit).
Lock(p) ==
    /\ pc[p] = "lock"
    /\ LET c == call[p]
           w == Head(scan[p])
           b == IF w = c.wallet THEN [wbal[p] EXCEPT !.from = balance[w]]
                ELSE [wbal[p] EXCEPT !.to = balance[w]]
       IN /\ LockFree(w, p)
          /\ IF Len(scan[p]) > 1
             THEN /\ lockOwner' = [lockOwner EXCEPT ![w] = p]
                  /\ scan' = [scan EXCEPT ![p] = Tail(scan[p])]
                  /\ wbal' = [wbal EXCEPT ![p] = b]
                  /\ UNCHANGED <<pc, call, last, rows, balance, ledger, shop, reuse, net,
                                 keyUses, ncalls>>
             ELSE IF c.op = "deposit"
             THEN /\ lockOwner' = [lockOwner EXCEPT ![w] = p]
                  /\ scan' = [scan EXCEPT ![p] = <<>>]
                  /\ wbal' = [wbal EXCEPT ![p] = [b EXCEPT !.from = Credited(b.from, c.amount)]]
                  /\ pc' = [pc EXCEPT ![p] = "insert"]
                  /\ UNCHANGED <<call, last, rows, balance, ledger, shop, reuse, net,
                                 keyUses, ncalls>>
             ELSE IF DebitOutcome(b.from, c.amount) # "ok"
             THEN Abort(p, DebitOutcome(b.from, c.amount))
             ELSE /\ lockOwner' = [lockOwner EXCEPT ![w] = p]
                  /\ scan' = [scan EXCEPT ![p] = <<>>]
                  /\ wbal' = [wbal EXCEPT ![p] = [b EXCEPT !.from = Debited(b.from, c.amount)]]
                  /\ pc' = [pc EXCEPT ![p] = "insert"]
                  /\ UNCHANGED <<call, last, rows, balance, ledger, shop, reuse, net,
                                 keyUses, ncalls>>

\* Transaction.objects.create of the call's first row (DEPOSIT, WITHDRAW or
\* TRANSFER_OUT).  The unique index makes the insert wait for an uncommitted
\* row with the same key and fail on a committed one.
FirstRow(c) ==
    [wallet |-> c.wallet,
     tx_type |-> IF c.op = "deposit" THEN DEPOSIT
                 ELSE IF IsDebit(c) THEN WITHDRAW ELSE TRANSFER_OUT,
     amount |-> c.amount, key |-> c.key, related_tx |-> 0]

Insert(p) ==
    /\ pc[p] = "insert"
    /\ LET c == call[p]
       IN /\ ~KeyPendingElsewhere(c.key, p)
          /\ IF KeyCommitted(c.key)
             THEN Abort(p, "IntegrityError")
             ELSE /\ rows' = [rows EXCEPT ![p] = <<FirstRow(c)>>]
                  /\ pc' = [pc EXCEPT ![p] = IF c.op = "transfer" THEN "insert_in"
                                             ELSE IF c.op = "buy" THEN "record" ELSE "commit"]
                  /\ UNCHANGED <<balance, ledger, lockOwner, scan, wbal, shop, reuse, call,
                                 last, net, keyUses, ncalls>>

\* transfer: the destination wallet is saved, the TRANSFER_IN row is created
\* with related_tx = out_tx, and out_tx.related_tx is set to it.  Row
\* references are positions among the request's own rows until commit.
PairedRowsUnlinked(c) ==
    << [wallet |-> c.wallet, tx_type |-> TRANSFER_OUT, amount |-> c.amount,
        key |-> c.key, related_tx |-> 0],
       [wallet |-> c.to, tx_type |-> TRANSFER_IN, amount |-> c.amount,
        key |-> c.key_in, related_tx |-> 1] >>
PairedRows(c) ==
    << [wallet |-> c.wallet, tx_type |-> TRANSFER_OUT, amount |-> c.amount,
        key |-> c.key, related_tx |-> 2],
       [wallet |-> c.to, tx_type |-> TRANSFER_IN, amount |-> c.amount,
        key |-> c.key_in, related_tx |-> 1] >>

InsertIn(p) ==
    /\ pc[p] = "insert_in"
    /\ LET c == call[p]
       IN /\ ~KeyPendingElsewhere(c.key_in, p)
          /\ IF KeyCommitted(c.key_in) \/ KeyPendingOwn(c.key_in, p)
             THEN Abort(p, "IntegrityError")
             ELSE /\ wbal' = [wbal EXCEPT ![p].to = Credited(wbal[p].to, c.amount)]
                  /\ rows' = [rows EXCEPT ![p] = PairedRows(c)]
                  /\ pc' = [pc EXCEPT ![p] = "commit"]
                  /\ UNCHANGED <<balance, ledger, lockOwner, scan, shop, reuse, call, last,
                                 net, keyUses, ncalls>>

\* The transaction commits: the buffered rows and balances become visible
\* and the row locks are released.
CommittedRows(rs, base) ==
    [i \in 1..Len(rs) |->
        [rs[i] EXCEPT !.related_tx = IF rs[i].related_tx = 0 THEN 0 ELSE base + rs[i].related_tx]]

CommittedBalance(p) ==
    LET c == call[p]
    IN [w \in Wallets |->
          IF rows[p] = <<>> THEN balance[w]
          ELSE IF w = c.wallet THEN wbal[p].from
          ELSE IF c.op = "transfer" /\ w = c.to THEN wbal[p].to
          ELSE balance[w]]

SignedCall(c, rs, w) ==
    IF c.op = "deposit" THEN (IF w = c.wallet THEN c.amount ELSE 0)
    ELSE IF IsDebit(c) THEN (IF w = c.wallet /\ rs # <<>> THEN 0 - c.amount ELSE 0)
    ELSE (IF w = c.wallet THEN 0 - c.amount ELSE IF w = c.to THEN c.amount ELSE 0)

KeyCount(c, rs, k) ==
    IF rs = <<>> THEN 0
    ELSE (IF c.key = k THEN 1 ELSE 0) + (IF c.op = "transfer" /\ c.key_in = k THEN 1 ELSE 0)

\* PurchaseView.post after the withdraw: Purchase.objects.create with the
\* withdrawal, Inventory.get_or_create and the F("limited_sold") + 1 update.
PurchaseRow(c, tx) == [user |-> wallet_user(c.wallet), price_aki |-> c.amount, transaction |-> tx]

Commit(p) ==
    /\ pc[p] = "commit"
    /\ ledger' = ledger \o CommittedRows(rows[p], Len(ledger))
    /\ balance' = CommittedBalance(p)
    /\ lockOwner' = Release(p)
    /\ rows' = [rows EXCEPT ![p] = <<>>]
    /\ wbal' = [wbal EXCEPT ![p] = NoBalance]
    /\ pc' = [pc EXCEPT ![p] = "done"]
    /\ LET tx == IF reuse[p] # 0 THEN reuse[p] ELSE Len(ledger) + 1
       IN /\ last' = Ended(call[p], "ok", tx)
          /\ IF call[p].op = "purchase"
             THEN /\ purchases' = Append(purchases, PurchaseRow(call[p], tx))
                  /\ inventory' = inventory \cup {wallet_user(call[p].wallet)}
                  /\ limited_sold' = limited_sold + 1
             ELSE UNCHANGED shop
    /\ reuse' = [reuse EXCEPT ![p] = 0]
    /\ call' = [call EXCEPT ![p] = NoCall]
    /\ net' = [w \in Wallets |-> net[w] + SignedCall(call[p], rows[p], w)]
    /\ keyUses' = [k \in Keys |-> keyUses[k] + KeyCount(call[p], rows[p], k)]
    /\ UNCHANGED <<scan, ncalls>>

\* ------------------------------ buy_item_for_user (shop/services.py)

\* The service gets the Item object from its caller: c.sold is the
\* limited_sold that object was loaded with.  item.offer is fetched with the
\* passed object as its item, so the offer tests read the same value.
buy_price(sold) == IF is_selling_now(sold) THEN current_price ELSE Item.price_aki

BuyCall(u) ==
    [op |-> "buy", wallet |-> aki_wallet(u), to |-> 0, amount |-> buy_price(limited_sold),
     key |-> NoKey, key_in |-> NoKey, sold |-> limited_sold]

\* the checks before the withdraw; no row is locked
BuyCheck(p) ==
    /\ pc[p] = "check"
    /\ LET c == call[p]
       IN IF Owns(wallet_user(c.wallet))
          THEN Abort(p, "ShopError")
          ELSE IF buy_price(c.sold) <= 0 \/ ~can_sell_now(c.sold)
          THEN Abort(p, "ShopError")
          ELSE /\ pc' = [pc EXCEPT ![p] = "idem"]
               /\ UNCHANGED <<balance, ledger, lockOwner, scan, wbal, rows, shop, reuse, call,
                              last, ncalls, net, keyUses>>

\* after the withdraw: Purchase.objects.create, Inventory.objects.create
\* (unique_together user, item) and item.save() of limited_sold = the loaded
\* value + 1, which waits for the row lock of the item; then the commit.
BuyRecord(p) ==
    /\ pc[p] = "record"
    /\ LockFree(ItemRow, p)
    /\ LET c == call[p]
           u == wallet_user(c.wallet)
           tx == Len(ledger) + 1
       IN IF u \in inventory
          THEN Abort(p, "IntegrityError")
          ELSE /\ ledger' = ledger \o CommittedRows(rows[p], Len(ledger))
               /\ balance' = CommittedBalance(p)
               /\ lockOwner' = Release(p)
               /\ rows' = [rows EXCEPT ![p] = <<>>]
               /\ wbal' = [wbal EXCEPT ![p] = NoBalance]
               /\ pc' = [pc EXCEPT ![p] = "done"]
               /\ last' = Ended(c, "ok", tx)
               /\ purchases' = Append(purchases, PurchaseRow(c, tx))
               /\ inventory' = inventory \cup {u}
               /\ limited_sold' = c.sold + 1
               /\ call' = [call EXCEPT ![p] = NoCall]
               /\ net' = [w \in Wallets |-> net[w] + SignedCall(c, rows[p], w)]
               /\ keyUses' = [k \in Keys |-> keyUses[k] + KeyCount(c, rows[p], k)]
               /\ UNCHANGED <<scan, reuse, ncalls>>

\* a purchase request arrives, at the view or at the service
ShopCall(p) ==
    /\ pc[p] = "done"
    /\ \A q \in Procs : q < p => pc[q] # "done"
    /\ ncalls < MaxCalls
    /\ \E u \in Users : \E c \in {PurchaseCall(u), BuyCall(u)} :
          /\ pc' = [pc EXCEPT ![p] = IF c.op = "purchase" THEN "offer" ELSE "check"]
          /\ call' = [call EXCEPT ![p] = c]
    /\ ncalls' = ncalls + 1
    /\ UNCHANGED <<balance, ledger, lockOwner, scan, wbal, rows, shop, reuse, last, net, keyUses>>

\* The database's deadlock detector: a request that waits for a request
\* that waits for it is aborted (OperationalError: deadlock detected).
Blocker(p) ==
    IF pc[p] = "lock" /\ ~LockFree(Head(scan[p]), p) THEN lockOwner[Head(scan[p])]
    ELSE IF pc[p] = "offer" /\ ~LockFree(OfferRow, p) THEN lockOwner[OfferRow]
    ELSE IF pc[p] = "record" /\ ~LockFree(ItemRow, p) THEN lockOwner[ItemRow]
    ELSE IF pc[p] = "insert" /\ KeyPendingElsewhere(call[p].key, p)
    THEN CHOOSE q \in Procs \ {p} : \E i \in 1..Len(rows[q]) : rows[q][i].key = call[p].key
    ELSE IF pc[p] = "insert_in" /\ KeyPendingElsewhere(call[p].key_in, p)
    THEN CHOOSE q \in Procs \ {p} : \E i \in 1..Len(rows[q]) : rows[q][i].key = call[p].key_in
    ELSE NoProc

DeadlockAbort(p) ==
    /\ Blocker(p) # NoProc
    /\ Blocker(Blocker(p)) = p
    /\ Abort(p, "DeadlockDetected")

\* ---------------------------------------------------- the specification

\* ------------------------------------- promo codes (promo/models.py, services.py)

\* the bounds of the promo model
MaxRedemptions == 2
MaxTicks == 3

RESERVE_TTL_MINUTES == 20

PENDING == "pending"
APPLIED == "applied"
CANCELLED == "cancelled"
EXPIRED == "expired"

\* topup_amount_minor = None, reserved_until = None
None == 0 - 1

PaymentIds == {"pay1", "pay2"}
\* the topup requests that carry the promo code: the payment, its amount and
\* the idempotency key the client sends ("" when it sends none)
TopupRequests ==
    {[payment_id |-> "pay1", topup_amount_minor |-> 1, idempotency_key |-> ""],
     [payment_id |-> "pay2", topup_amount_minor |-> 2, idempotency_key |-> "i1"]}
\* the effect row attached to the promo code, if any; a bonus is FIXED (1) or
\* PERCENT (50 % of the topup), a discount asks for a topup of at least 2
Effects == {"none", "bonus_fixed", "bonus_percent", "item_grant", "topup_discount"}

\* f"promo:{redemption.id}"
PromoKey(id) == <<"promo1", "promo2", "promo3", "promo4", "promo5", "promo6">>[id]

RedIds(reds) == 1..Len(reds)

\* PromoCode.is_in_window
is_in_window(pr, t) == pr.starts_at <= t /\ t <= pr.ends_at

AppliedOfNone(reds, u) == {}
AppliedOf(reds, u) == {i \in RedIds(reds) : reds[i].user = u /\ reds[i].status = APPLIED}

\* PromoCode.can_user_redeem_applied: "ok" or the reason of the refusal
can_user_redeem_applied(pr, reds, u, t) ==
    IF ~pr.is_active THEN "promo_inactive"
    ELSE IF ~is_in_window(pr, t) THEN "promo_expired_or_not_started"
    ELSE IF pr.uses_count >= pr.max_total_uses THEN "promo_limit_reached"
    ELSE IF Cardinality(AppliedOf(reds, u)) >= pr.max_uses_per_user THEN "already_redeemed"
    ELSE "ok"

\* UniqueConstraint uniq_promo_user_applied: at most one APPLIED row per promo and user
UniqueAppliedOK(reds) == \A u \in Users : Cardinality(AppliedOf(reds, u)) <= 1

\* PromoBalanceBonus.calc_bonus_minor: the bonus, or the code of the ValidationError
calc_bonus_minor(effect, topup) ==
    IF effect = "bonus_fixed" THEN [ok |-> TRUE, bonus |-> 1, error |-> ""]
    ELSE IF topup = None THEN [ok |-> FALSE, bonus |-> 0, error |-> "topup_amount_required"]
    ELSE [ok |-> TRUE, bonus |-> (topup * 50) \div 100, error |-> ""]

\* PromoTopupDiscount.quote: whether the topup reaches min_topup_minor
quote_ok(topup) == topup >= 2

\* .filter(...).order_by("-redeemed_at").first(): a row of the set with the
\* latest redeemed_at (the database picks among equals)
Latest(reds, ids) == {i \in ids : \A j \in ids : reds[j].redeemed_at <= reds[i].redeemed_at}

WithPayment(reds, pay) == {i \in RedIds(reds) : reds[i].payment_id = pay}

\* the database after a promo handler's transaction: what it commits when it
\* returns, and the unchanged database when it raises
PromoDb == [promo |-> promo, redemptions |-> redemptions, balance |-> balance,
            ledger |-> ledger, inventory |-> inventory, net |-> net]

\* economy.services.deposit as called by apply_effect, inside the handler's transaction
DepositBonus(db, w, amount, key) ==
    LET c == [op |-> "deposit", wallet |-> w, to |-> 0, amount |-> amount, key |-> key,
              key_in |-> NoKey]
        hit == {i \in 1..Len(db.ledger) : db.ledger[i].key = key}
    IN IF hit # {}
       THEN [ok |-> \A i \in hit : SameOperation(db.ledger[i], c), error |-> "ValidationError",
             db |-> db]
       ELSE [ok |-> TRUE, error |-> "",
             db |-> [db EXCEPT !.balance[w] = Credited(db.balance[w], amount),
                               !.ledger = Append(db.ledger, FirstRow(c)),
                               !.net[w] = db.net[w] + amount]]

\* PromoCode.apply_effect
apply_effect(db, u, id, topup) ==
    LET e == db.promo.effect
        b == calc_bonus_minor(e, topup)
    IN IF e \in {"bonus_fixed", "bonus_percent"}
       THEN IF ~b.ok THEN [ok |-> FALSE, error |-> b.error, db |-> db]
            ELSE IF b.bonus <= 0 THEN [ok |-> FALSE, error |-> "bonus_is_zero", db |-> db]
            ELSE DepositBonus(db, aki_wallet(u), b.bonus, PromoKey(id))
       ELSE IF e = "item_grant"
       THEN IF u \in db.inventory THEN [ok |-> FALSE, error |-> "item_already_owned", db |-> db]
            ELSE [ok |-> TRUE, error |-> "", db |-> [db EXCEPT !.inventory = @ \cup {u}]]
       ELSE IF e = "topup_discount"
       THEN [ok |-> FALSE, error |-> "topup_discount_requires_quote", db |-> db]
       ELSE [ok |-> FALSE, error |-> "promo_has_no_effect", db |-> db]

\* the handler's transaction ends: db is committed; a handler that raised
\* passes the database it started from
PromoEnds(db, op, u, pay, red, status) ==
    /\ promo' = db.promo
    /\ redemptions' = db.redemptions
    /\ balance' = db.balance
    /\ ledger' = db.ledger
    /\ inventory' = db.inventory
    /\ net' = db.net
    /\ plast' = [op |-> op, user |-> u, red |-> red, status |-> status]
    /\ UNCHANGED <<economy, now>>

SetStatus(reds, ids, st) ==
    [i \in RedIds(reds) |-> IF i \in ids THEN [reds[i] EXCEPT !.status = st] ELSE reds[i]]

ExpiredPending(reds, t) ==
    {i \in RedIds(reds) : reds[i].status = PENDING /\ reds[i].reserved_until # None
                          /\ reds[i].reserved_until < t}

ActivePending(reds, t) ==
    {i \in RedIds(reds) : reds[i].status = PENDING /\ reds[i].reserved_until # None
                          /\ reds[i].reserved_until > t}

\* reserve_promo_for_topup
Reserve(u, pay, idem, topup) ==
    LET byKey == {i \in RedIds(redemptions) : redemptions[i].idempotency_key = idem}
        reason == can_user_redeem_applied(promo, redemptions, u, now)
        swept == SetStatus(redemptions, ExpiredPending(redemptions, now), EXPIRED)
        mine == {i \in ActivePending(swept, now) : swept[i].user = u}
        row == [user |-> u, status |-> PENDING, context |-> "topup",
                topup_amount_minor |-> topup, payment_id |-> pay, idempotency_key |-> idem,
                reserved_until |-> now + RESERVE_TTL_MINUTES, redeemed_at |-> now]
    IN IF idem # "" /\ byKey # {}
       THEN \E i \in Latest(redemptions, byKey) : PromoEnds(PromoDb, "reserve", u, pay, i, "ok")
       ELSE IF reason # "ok"
       THEN PromoEnds(PromoDb, "reserve", u, pay, 0, reason)
       ELSE IF promo.uses_count + Cardinality(ActivePending(swept, now)) >= promo.max_total_uses
       THEN PromoEnds(PromoDb, "reserve", u, pay, 0, "promo_limit_reached")
       ELSE IF mine # {}
       THEN \E i \in Latest(swept, mine) :
                PromoEnds([PromoDb EXCEPT !.redemptions = swept], "reserve", u, pay, i, "ok")
       ELSE IF promo.effect = "topup_discount" /\ ~quote_ok(topup)
       THEN PromoEnds(PromoDb, "reserve", u, pay, 0, "topup_too_small")
       ELSE /\ Len(redemptions) < MaxRedemptions
            /\ PromoEnds([PromoDb EXCEPT !.redemptions = Append(swept, row)],
                         "reserve", u, pay, Len(redemptions) + 1, "ok")

\* the TTL test of apply_promo_after_payment_success:
\* red.reserved_until and red.reserved_until < now
reservation_expired_never(red, t) == FALSE
reservation_expired(red, t) == red.reserved_until # None /\ red.reserved_until < t

\* apply_promo_after_payment_success.  Every status it saves before raising
\* is undone with the transaction.
UsesAfterApplySame(n) == n
UsesAfterApply(n) == n + 1

ApplyFound(i, pay) ==
    LET red == redemptions[i]
        reason == can_user_redeem_applied(promo, redemptions, red.user, now)
        eff == IF promo.effect \in {"bonus_fixed", "bonus_percent", "item_grant"}
               THEN apply_effect(PromoDb, red.user, i, red.topup_amount_minor)
               ELSE [ok |-> TRUE, error |-> "", db |-> PromoDb]
        applied == SetStatus(redemptions, {i}, APPLIED)
    IN IF red.status = APPLIED
       THEN PromoEnds(PromoDb, "apply", red.user, pay, i, "ok")
       ELSE IF red.status \in {CANCELLED, EXPIRED}
       THEN PromoEnds(PromoDb, "apply", red.user, pay, i, "redemption_not_active")
       ELSE IF reservation_expired(red, now)
       THEN PromoEnds(PromoDb, "apply", red.user, pay, i, "reservation_expired")
       ELSE IF reason # "ok"
       THEN PromoEnds(PromoDb, "apply", red.user, pay, i, reason)
       ELSE IF ~eff.ok
       THEN PromoEnds(PromoDb, "apply", red.user, pay, i, eff.error)
       ELSE IF ~UniqueAppliedOK(applied)
       THEN PromoEnds(PromoDb, "apply", red.user, pay, i, "IntegrityError")
       ELSE PromoEnds([eff.db EXCEPT !.redemptions = applied,
                                     !.promo.uses_count = UsesAfterApply(promo.uses_count)],
                      "apply", red.user, pay, i, "ok")

Apply(pay) ==
    IF WithPayment(redemptions, pay) = {}
    THEN PromoEnds(PromoDb, "apply", 0, pay, 0, "redemption_not_found")
    ELSE \E i \in Latest(redemptions, WithPayment(redemptions, pay)) : ApplyFound(i, pay)

\* cancel_promo_reservation: only an APPLIED redemption is left as it is
CancelKeeps(status) == status = APPLIED

Cancel(pay) ==
    IF WithPayment(redemptions, pay) = {}
    THEN PromoEnds(PromoDb, "cancel", 0, pay, 0, "none")
    ELSE \E i \in Latest(redemptions, WithPayment(redemptions, pay)) :
            IF CancelKeeps(redemptions[i].status)
            THEN PromoEnds(PromoDb, "cancel", redemptions[i].user, pay, i, "ok")
            ELSE PromoEnds([PromoDb EXCEPT !.redemptions = SetStatus(redemptions, {i}, CANCELLED)],
                           "cancel", redemptions[i].user, pay, i, "ok")

\* PromoCode.redeem, the manual redemption of PromoRedeemView (manual_redeem_now
\* in promo/services.py does the same): an APPLIED row at once, the effect,
\* uses_count + 1.
Redeem(u) ==
    LET reason == can_user_redeem_applied(promo, redemptions, u, now)
        row == [user |-> u, status |-> APPLIED, context |-> "manual",
                topup_amount_minor |-> None, payment_id |-> "", idempotency_key |-> "",
                reserved_until |-> None, redeemed_at |-> now]
        created == Append(redemptions, row)
        id == Len(redemptions) + 1
        eff == apply_effect([PromoDb EXCEPT !.redemptions = created], u, id, None)
    IN IF reason # "ok"
       THEN PromoEnds(PromoDb, "redeem", u, "", 0, reason)
       ELSE IF ~UniqueAppliedOK(created)
       THEN PromoEnds(PromoDb, "redeem", u, "", 0, "IntegrityError")
       ELSE IF ~eff.ok
       THEN PromoEnds(PromoDb, "redeem", u, "", 0, eff.error)
       ELSE /\ Len(redemptions) < MaxRedemptions
            /\ PromoEnds([eff.db EXCEPT !.promo.uses_count = UsesAfterApply(promo.uses_count)],
                         "redeem", u, "", id, "ok")

\* time passes
Tick ==
    /\ now < MaxTicks * 10
    /\ now' = now + 10
    /\ UNCHANGED <<balance, ledger, inventory, net, economy, promo, redemptions, plast, pjob>>

\* ---------------------------------- promo requests in flight at the same time
\* apply_promo_after_payment_success and PromoCode.redeem, one step per row
\* lock they take; the transaction's writes become visible when it ends.

NoPromoJob == [op |-> "none", at |-> "none", red |-> 0, user |-> 0, pay |-> ""]

\* the row lock of a redemption: held by the apply that selected it for update
RedLocked(i) == \E q \in Procs : pjob[q].op = "apply" /\ pjob[q].red = i

\* PromoCode.objects.select_for_update().get(pk=...): p gets the promo row
\* when no other transaction holds it
PromoRowFreeAlways(p) == TRUE
PromoRowFree(p) == \A q \in Procs \ {p} : pjob[q].at # "commit"

PromoJobStays(p, j) ==
    /\ pjob' = [pjob EXCEPT ![p] = j]
    /\ UNCHANGED <<balance, ledger, inventory, net, economy, promo, redemptions, now, plast>>

\* apply: the redemption of the payment is locked and its status and TTL are tested
ApplyLockRedemption(p, pay) ==
    /\ pjob[p] = NoPromoJob
    /\ IF WithPayment(redemptions, pay) = {}
       THEN PromoEnds(PromoDb, "apply", 0, pay, 0, "redemption_not_found") /\ UNCHANGED pjob
       ELSE \E i \in Latest(redemptions, WithPayment(redemptions, pay)) :
              LET red == redemptions[i]
              IN /\ ~RedLocked(i)
                 /\ IF red.status = APPLIED
                    THEN PromoEnds(PromoDb, "apply", red.user, pay, i, "ok") /\ UNCHANGED pjob
                    ELSE IF red.status \in {CANCELLED, EXPIRED}
                    THEN PromoEnds(PromoDb, "apply", red.user, pay, i, "redemption_not_active")
                         /\ UNCHANGED pjob
                    ELSE IF reservation_expired(red, now)
                    THEN PromoEnds(PromoDb, "apply", red.user, pay, i, "reservation_expired")
                         /\ UNCHANGED pjob
                    ELSE PromoJobStays(p, [op |-> "apply", at |-> "promo", red |-> i,
                                           user |-> red.user, pay |-> pay])

\* apply: the promo row is locked and the limits are tested on what is committed
ApplyLockPromo(p) ==
    LET j == pjob[p]
        reason == can_user_redeem_applied(promo, redemptions, j.user, now)
    IN /\ j.op = "apply"
       /\ j.at = "promo"
       /\ PromoRowFree(p)
       /\ IF reason # "ok"
          THEN /\ PromoEnds(PromoDb, "apply", j.user, j.pay, j.red, reason)
               /\ pjob' = [pjob EXCEPT ![p] = NoPromoJob]
          ELSE PromoJobStays(p, [j EXCEPT !.at = "commit"])

\* apply: the effect, the APPLIED status and uses_count = F("uses_count") + 1
\* are written and the transaction ends
ApplyCommit(p) ==
    LET j == pjob[p]
        eff == IF promo.effect \in {"bonus_fixed", "bonus_percent", "item_grant"}
               THEN apply_effect(PromoDb, j.user, j.red, redemptions[j.red].topup_amount_minor)
               ELSE [ok |-> TRUE, error |-> "", db |-> PromoDb]
        applied == SetStatus(redemptions, {j.red}, APPLIED)
    IN /\ j.op = "apply"
       /\ j.at = "commit"
       /\ pjob' = [pjob EXCEPT ![p] = NoPromoJob]
       /\ IF ~eff.ok
          THEN PromoEnds(PromoDb, "apply", j.user, j.pay, j.red, eff.error)
          ELSE IF ~UniqueAppliedOK(applied)
          THEN PromoEnds(PromoDb, "apply", j.user, j.pay, j.red, "IntegrityError")
          ELSE PromoEnds([eff.db EXCEPT !.redemptions = applied,
                                        !.promo.uses_count = UsesAfterApply(promo.uses_count)],
                         "apply", j.user, j.pay, j.red, "ok")

\* redeem: the promo row is locked and the limits are tested on what is committed
RedeemLockPromo(p, u) ==
    LET reason == can_user_redeem_applied(promo, redemptions, u, now)
    IN /\ pjob[p] = NoPromoJob
       /\ PromoRowFree(p)
       /\ IF reason # "ok"
          THEN PromoEnds(PromoDb, "redeem", u, "", 0, reason) /\ UNCHANGED pjob
          ELSE PromoJobStays(p, [op |-> "redeem", at |-> "commit", red |-> 0,
                                 user |-> u, pay |-> ""])

\* redeem: the APPLIED row, the effect and uses_count = F("uses_count") + 1
\* are written and the transaction ends
RedeemCommit(p) ==
    LET j == pjob[p]
        row == [user |-> j.user, status |-> APPLIED, context |-> "manual",
                topup_amount_minor |-> None, payment_id |-> "", idempotency_key |-> "",
                reserved_until |-> None, redeemed_at |-> now]
        created == Append(redemptions, row)
        id == Len(redemptions) + 1
        eff == apply_effect([PromoDb EXCEPT !.redemptions = created], j.user, id, None)
    IN /\ j.op = "redeem"
       /\ j.at = "commit"
       /\ pjob' = [pjob EXCEPT ![p] = NoPromoJob]
       /\ IF ~UniqueAppliedOK(created)
          THEN PromoEnds(PromoDb, "redeem", j.user, "", 0, "IntegrityError")
          ELSE IF ~eff.ok
          THEN PromoEnds(PromoDb, "redeem", j.user, "", 0, eff.error)
          ELSE /\ Len(redemptions) < MaxRedemptions
               /\ PromoEnds([eff.db EXCEPT !.promo.uses_count = UsesAfterApply(promo.uses_count)],
                            "redeem", j.user, "", id, "ok")

\* reserve_promo_for_topup beside the requests in flight: it runs when the
\* promo row and the redemptions it selects for update are free
ReserveBeside(u, pay, idem, topup) ==
    /\ PromoRowFree(NoProc)
    /\ \A i \in RedIds(redemptions) :
          RedLocked(i) => /\ redemptions[i].user # u
                          /\ (idem = "" \/ redemptions[i].idempotency_key # idem)
    /\ Reserve(u, pay, idem, topup)
    /\ UNCHANGED pjob

\* cancel_promo_reservation beside the requests in flight: it waits for the
\* lock of the redemption
CancelBeside(pay) ==
    /\ \A i \in WithPayment(redemptions, pay) : ~RedLocked(i)
    /\ Cancel(pay)
    /\ UNCHANGED pjob

\* ------------------------------------------------ levels (users/leveling.py)

\* the bound of the level model: how far around each threshold xp is drawn
MaxDelta == 2

MAX_LEVEL == 30
K == 100

\* the largest r in lo..hi with r * r <= m
RECURSIVE FloorSqrt(_, _, _)
FloorSqrt(m, lo, hi) ==
    IF lo = hi THEN lo
    ELSE LET mid == (lo + hi + 1) \div 2
         IN IF mid * mid <= m THEN FloorSqrt(m, mid, hi) ELSE FloorSqrt(m, lo, mid - 1)

\* int(round(K * level ** 1.5)): the integer nearest to sqrt(K^2 * level^3)
xp_for_level(level) ==
    IF level < 1 THEN 0
    ELSE (FloorSqrt(4 * K * K * level * level * level, 0, 40000) + 1) \div 2

XP_NEXT_TABLE == [n \in 0..MAX_LEVEL |-> xp_for_level(n)]

RECURSIVE TotalXp(_)
TotalXp(n) == IF n = 0 THEN 0 ELSE TotalXp(n - 1) + XP_NEXT_TABLE[n]

TOTAL_XP_TABLE == [n \in 0..MAX_LEVEL |-> TotalXp(n)]

total_xp_for_level(level) ==
    IF level <= 0 THEN 0
    ELSE IF level >= MAX_LEVEL THEN TOTAL_XP_TABLE[MAX_LEVEL]
    ELSE TOTAL_XP_TABLE[level]

\* bisect.bisect_right(a, x) on the list a[0..n-1], by bisection of lo..hi
RECURSIVE bisect_right(_, _, _, _)
bisect_right(a, x, lo, hi) ==
    IF lo < hi
    THEN LET mid == (lo + hi) \div 2
         IN IF x < a[mid] THEN bisect_right(a, x, lo, mid) ELSE bisect_right(a, x, mid + 1, hi)
    ELSE lo

Min(a, b) == IF a < b THEN a ELSE b
Max(a, b) == IF a > b THEN a ELSE b

level_for_xp_idx(xp) ==
    IF xp <= 0 THEN 0
    ELSE IF xp >= TOTAL_XP_TABLE[MAX_LEVEL] THEN MAX_LEVEL
    ELSE Max(0, Min(MAX_LEVEL, bisect_right(TOTAL_XP_TABLE, xp, 0, MAX_LEVEL + 1)))
level_for_xp(xp) ==
    IF xp <= 0 THEN 0
    ELSE IF xp >= TOTAL_XP_TABLE[MAX_LEVEL] THEN MAX_LEVEL
    ELSE Max(0, Min(MAX_LEVEL, bisect_right(TOTAL_XP_TABLE, xp, 0, MAX_LEVEL + 1) - 1))

\* the arguments of the calls: every threshold and the values around it
XpInputs == {TOTAL_XP_TABLE[l] + d : l \in 0..MAX_LEVEL, d \in (0 - MaxDelta)..MaxDelta}

NoLevelCall == [xp |-> 0, level |-> None]

\* a call of level_for_xp(xp); the call before it is kept
LevelForXp(xp) ==
    /\ levels' = <<levels[2], [xp |-> xp, level |-> level_for_xp(xp)]>>
    /\ UNCHANGED <<balance, ledger, lockOwner, pc, call, scan, wbal, rows, inventory, purchases,
                   limited_sold, reuse, last, ncalls, net, keyUses, promo, redemptions, now,
                   plast, pjob, limited_total, profiles, chats>>

\* ------------------------------------------ Profile.add_xp (users/models.py)

\* the amounts of the add_xp calls: none, the admin actions' 10 and 1000,
\* and amounts that reach the threshold of the last level
XpAmounts == {0 - 10, 0, 10, 1000, total_xp_for_level(MAX_LEVEL) - 10,
              total_xp_for_level(MAX_LEVEL)}

\* the xp that add_xp leaves on the object
add_xp(x, amount) ==
    IF amount <= 0 THEN x ELSE Min(x + amount, total_xp_for_level(MAX_LEVEL))

NoProfile == [user |-> 0, xp |-> 0]
NoXpCall == [req |-> 0, amount |-> 0, before |-> 0]

\* Profile.objects.get_or_create(user=request.user), or the admin's queryset:
\* the request gets the stored row as an object
LoadProfile(r, u) ==
    /\ profile' = [profile EXCEPT ![r] = [user |-> u, xp |-> profile_xp[u]]]
    /\ UNCHANGED <<profile_xp, xlast, nxp>>

\* profile.add_xp(amount) on the object the request holds; save() writes the
\* object's xp to the row
AddXp(r, amount) ==
    /\ profile[r] # NoProfile
    /\ nxp < MaxCalls
    /\ nxp' = nxp + 1
    /\ xlast' = [req |-> r, amount |-> amount, before |-> profile[r].xp]
    /\ IF amount <= 0
       THEN UNCHANGED <<profile_xp, profile>>
       ELSE /\ profile' = [profile EXCEPT ![r].xp = add_xp(profile[r].xp, amount)]
            /\ profile_xp' = [profile_xp EXCEPT ![profile[r].user] = add_xp(profile[r].xp, amount)]

InitUsers ==
    /\ levels = <<NoLevelCall, NoLevelCall>>
    /\ profile_xp = [u \in Users |-> 0]
    /\ profile = [r \in Procs |-> NoProfile]
    /\ xlast = NoXpCall
    /\ nxp = 0

\* --------------------------------------------- chat (chats/consumers.py)

\* the bound of the chat model: the frames the consumers receive
MaxFrames == 2

Conns == {1, 2}
Convs == {1, 2}
\* AnonymousUser
Anonymous == 0
ScopeUsers == Users \cup {Anonymous}
\* the "text" of a frame, as a list of characters; <<>> also stands for a missing text
Texts == {<<>>, <<" ">>, <<"a">>, <<" ", "a">>}

notchats == <<balance, ledger, lockOwner, pc, call, scan, wbal, rows, inventory, purchases,
              limited_sold, reuse, last, ncalls, net, keyUses, promo, redemptions, now, plast,
              pjob, limited_total, levels, profiles>>

\* str.strip()
RECURSIVE lstrip(_)
lstrip(t) == IF t # <<>> /\ Head(t) = " " THEN lstrip(Tail(t)) ELSE t
RECURSIVE rstrip(_)
rstrip(t) == IF t # <<>> /\ t[Len(t)] = " " THEN rstrip(SubSeq(t, 1, Len(t) - 1)) ELSE t
strip_nothing(t) == t
strip(t) == rstrip(lstrip(t))

\* is_participant(conv_id, user)
is_participant_any(conv, u) == TRUE
is_participant(conv, u) ==
    IF u = Anonymous THEN FALSE ELSE <<conv, u>> \in participants

NoConn == [state |-> "none", user |-> Anonymous, conv |-> 0, ok |-> FALSE, member |-> FALSE,
           code |-> 0]
NoJob == [id |-> 0, text |-> <<>>]
NoFrame == [conn |-> 0, action |-> "none", text |-> <<>>]

\* ChatConsumer.connect up to the answer of is_participant; member notes
\* whether the Participant row exists when the query runs
Connect(c, u, conv) ==
    /\ conn[c].state = "none"
    /\ conn' = [conn EXCEPT ![c] = [state |-> "connecting", user |-> u, conv |-> conv,
                                    ok |-> is_participant(conv, u),
                                    member |-> <<conv, u>> \in participants, code |-> 0]]
    /\ UNCHANGED <<participants, group, messages, chan, sent, job, clast, nframes, notchats>>

\* connect: close(code=4403), or group_add
Admit(c) ==
    /\ conn[c].state = "connecting"
    /\ IF conn[c].ok
       THEN /\ group' = [group EXCEPT ![conn[c].conv] = @ \cup {c}]
            /\ conn' = [conn EXCEPT ![c].state = "joined"]
       ELSE /\ conn' = [conn EXCEPT ![c].state = "rejected", ![c].code = 4403]
            /\ UNCHANGED group
    /\ UNCHANGED <<participants, messages, chan, sent, job, clast, nframes, notchats>>

\* connect: accept()
Accept(c) ==
    /\ conn[c].state = "joined"
    /\ conn' = [conn EXCEPT ![c].state = "open"]
    /\ UNCHANGED <<participants, group, messages, chan, sent, job, clast, nframes, notchats>>

\* ChatConsumer.disconnect: group_discard when the connection has a group
Disconnect(c) ==
    /\ conn[c].state = "open"
    /\ job[c] = NoJob
    /\ conn' = [conn EXCEPT ![c].state = "closed"]
    /\ group' = [g \in Convs |-> group[g] \ {c}]
    /\ chan' = [chan EXCEPT ![c] = <<>>]
    /\ UNCHANGED <<participants, messages, sent, job, clast, nframes, notchats>>

\* channel_layer.group_send(group, event): the event is queued for every
\* connection of the group
group_send(conv, event) ==
    chan' = [d \in Conns |-> IF d \in group[conv] THEN Append(chan[d], event) ELSE chan[d]]

\* receive_json, action send_message, up to the answer of save_message
ReceiveSendMessage(c, t) ==
    LET text == strip(t)
    IN /\ conn[c].state = "open"
       /\ job[c] = NoJob
       /\ nframes < MaxFrames
       /\ nframes' = nframes + 1
       /\ clast' = [conn |-> c, action |-> "send_message", text |-> t]
       /\ IF text = <<>>
          THEN UNCHANGED <<messages, job>>
          ELSE /\ messages' = Append(messages, [conv |-> conn[c].conv, sender |-> conn[c].user,
                                                 text |-> text])
               /\ job' = [job EXCEPT ![c] = [id |-> Len(messages) + 1, text |-> text]]
       /\ UNCHANGED <<participants, conn, group, chan, sent, notchats>>

\* receive_json, action send_message: group_send of the saved message
BroadcastMessage(c) ==
    /\ job[c] # NoJob
    /\ group_send(conn[c].conv, [type |-> "message", conv |-> conn[c].conv, id |-> job[c].id,
                                  text |-> job[c].text, user |-> conn[c].user, value |-> FALSE])
    /\ job' = [job EXCEPT ![c] = NoJob]
    /\ UNCHANGED <<participants, conn, group, messages, sent, clast, nframes, notchats>>

\* receive_json, action typing
ReceiveTyping(c, value) ==
    /\ conn[c].state = "open"
    /\ job[c] = NoJob
    /\ nframes < MaxFrames
    /\ nframes' = nframes + 1
    /\ clast' = [conn |-> c, action |-> "typing", text |-> <<>>]
    /\ group_send(conn[c].conv, [type |-> "typing", conv |-> conn[c].conv, id |-> 0,
                                  text |-> <<>>, user |-> conn[c].user, value |-> value])
    /\ UNCHANGED <<participants, conn, group, messages, sent, job, notchats>>

\* chat_message, chat_typing: the consumer sends the queued event to its client
ChatEvent(c) ==
    /\ conn[c].state = "open"
    /\ job[c] = NoJob
    /\ chan[c] # <<>>
    /\ sent' = [sent EXCEPT ![c] = Append(@, Head(chan[c]))]
    /\ chan' = [chan EXCEPT ![c] = Tail(@)]
    /\ UNCHANGED <<participants, conn, group, messages, job, clast, nframes, notchats>>

\* a Participant row is deleted (ParticipantAdmin)
RemoveParticipant(conv, u) ==
    /\ <<conv, u>> \in participants
    /\ participants' = participants \ {<<conv, u>>}
    /\ UNCHANGED <<conn, group, messages, chan, sent, job, clast, nframes, notchats>>

InitChats ==
    /\ participants = {<<1, 1>>, <<1, 2>>, <<2, 2>>}
    /\ conn = [c \in Conns |-> NoConn]
    /\ group = [g \in Convs |-> {}]
    /\ messages = <<>>
    /\ chan = [c \in Conns |-> <<>>]
    /\ sent = [c \in Conns |-> <<>>]
    /\ job = [c \in Conns |-> NoJob]
    /\ clast = NoFrame
    /\ nframes = 0

NoPromoCall == [op |-> "none", user |-> 0, red |-> 0, status |-> "none"]

\* a new promo code: no use yet, no redemption (a per-user limit above the
\* total limit never binds, the total limit is checked first)
PromoCodes ==
    {pr \in [uses_count : {0}, max_total_uses : {1, 2}, max_uses_per_user : {1, 2},
             is_active : {TRUE}, starts_at : {0}, ends_at : {30}, effect : Effects] :
        pr.max_uses_per_user <= pr.max_total_uses}

InitPromo ==
    /\ redemptions = <<>>
    /\ now = 0
    /\ plast = NoPromoCall
    /\ pjob = [p \in Procs |-> NoPromoJob]

InitEconomy ==
    /\ balance = InitBalance
    /\ ledger = InitLedger
    /\ lockOwner = [w \in LockRows |-> NoProc]
    /\ purchases = <<>>
    /\ limited_sold = 0
    /\ reuse = [p \in Procs |-> 0]
    /\ pc = [p \in Procs |-> "done"]
    /\ call = [p \in Procs |-> NoCall]
    /\ scan = [p \in Procs |-> <<>>]
    /\ wbal = [p \in Procs |-> NoBalance]
    /\ rows = [p \in Procs |-> <<>>]
    /\ last = Ended(NoCall, "none", 0)
    /\ ncalls = 0
    /\ net = [w \in Wallets |-> 0]
    /\ keyUses = [k \in Keys |-> 0]

\* user 1 already owns the item on offer, as a gift (InventorySource.GIFT):
\* no Purchase, limited_sold untouched
Init ==
    /\ InitEconomy
    /\ limited_total = 1
    /\ inventory = {1}
    /\ InitPromo
    /\ InitUsers
    /\ InitChats
    /\ promo = [uses_count |-> 0, max_total_uses |-> 1, max_uses_per_user |-> 1,
                is_active |-> TRUE, starts_at |-> 0, ends_at |-> 30, effect |-> "none"]

Next ==
    \E p \in Procs :
        \/ Call(p) /\ UNCHANGED promos
        \/ LockOffer(p) /\ UNCHANGED promos
        \/ IdemCheck(p) /\ UNCHANGED promos
        \/ Lock(p) /\ UNCHANGED promos
        \/ Insert(p) /\ UNCHANGED promos
        \/ InsertIn(p) /\ UNCHANGED promos
        \/ Commit(p) /\ UNCHANGED promos
        \/ DeadlockAbort(p) /\ UNCHANGED promos

Spec == Init /\ [][Next]_vars

\* The shop alone: purchases through the view and through the service, of an
\* item nobody owns yet that is limited to one or two copies.
ShopLimits == {1, 2}

ShopInit ==
    /\ InitEconomy
    /\ limited_total \in ShopLimits
    /\ inventory = {}
    /\ InitPromo
    /\ InitUsers
    /\ InitChats
    /\ promo = [uses_count |-> 0, max_total_uses |-> 1, max_uses_per_user |-> 1,
                is_active |-> TRUE, starts_at |-> 0, ends_at |-> 30, effect |-> "none"]

ShopNext ==
    \E p \in Procs :
        \/ ShopCall(p) /\ UNCHANGED promos
        \/ LockOffer(p) /\ UNCHANGED promos
        \/ BuyCheck(p) /\ UNCHANGED promos
        \/ IdemCheck(p) /\ UNCHANGED promos
        \/ Lock(p) /\ UNCHANGED promos
        \/ Insert(p) /\ UNCHANGED promos
        \/ Commit(p) /\ UNCHANGED promos
        \/ BuyRecord(p) /\ UNCHANGED promos
        \/ DeadlockAbort(p) /\ UNCHANGED promos

SpecShop == ShopInit /\ [][ShopNext]_vars

\* The promo state machine: one promo code, with any effect and limits, and
\* the handlers called one at a time as time passes.
\* the handlers one after the other, on the codes with the default
\* max_uses_per_user = 1
PromoInit ==
    /\ InitEconomy
    /\ limited_total = 1
    /\ inventory = {}
    /\ InitPromo
    /\ InitUsers
    /\ InitChats
    /\ promo \in {pr \in PromoCodes : pr.max_uses_per_user = 1}

\* requests in flight at the same time: every code
PromoConcInit ==
    /\ InitEconomy
    /\ limited_total = 1
    /\ inventory = {}
    /\ InitPromo
    /\ InitUsers
    /\ InitChats
    /\ promo \in PromoCodes

PromoNext ==
    \/ Tick
    \/ \E u \in Users : \E r \in TopupRequests :
          Reserve(u, r.payment_id, r.idempotency_key, r.topup_amount_minor) /\ UNCHANGED pjob
    \/ \E pay \in PaymentIds : Apply(pay) /\ UNCHANGED pjob
    \/ \E pay \in PaymentIds : Cancel(pay) /\ UNCHANGED pjob
    \/ \E u \in Users : Redeem(u) /\ UNCHANGED pjob

SpecPromo == PromoInit /\ [][PromoNext]_vars

\* The promo handlers with two requests in flight at the same instant.
PromoConcNext ==
    \/ \E u \in Users : \E r \in TopupRequests :
          ReserveBeside(u, r.payment_id, r.idempotency_key, r.topup_amount_minor)
    \/ \E pay \in PaymentIds : CancelBeside(pay)
    \/ \E p \in Procs :
          \/ \E pay \in PaymentIds : ApplyLockRedemption(p, pay)
          \/ ApplyLockPromo(p)
          \/ ApplyCommit(p)
          \/ \E u \in Users : RedeemLockPromo(p, u)
          \/ RedeemCommit(p)

SpecPromoConc == PromoConcInit /\ [][PromoConcNext]_vars

\* The level function, called with any arguments one after the other.
LevelNext == \E xp \in XpInputs : LevelForXp(xp)

SpecLevel == Init /\ [][LevelNext]_vars

\* add_xp, called by two requests on the Profile objects they loaded.
notprofiles == <<balance, ledger, lockOwner, pc, call, scan, wbal, rows, inventory, purchases,
                 limited_sold, reuse, last, ncalls, net, keyUses, promo, redemptions, now, plast,
                 pjob, limited_total, levels, chats>>

XpNext ==
    \E r \in Procs :
        \/ \E u \in Users : LoadProfile(r, u) /\ UNCHANGED notprofiles
        \/ \E amount \in XpAmounts : AddXp(r, amount) /\ UNCHANGED notprofiles

SpecXp == Init /\ [][XpNext]_vars

\* The chat consumers: connections open, receive frames and close in any order.
ChatNext ==
    \/ \E c \in Conns : \E u \in ScopeUsers : \E conv \in Convs : Connect(c, u, conv)
    \/ \E c \in Conns : Admit(c)
    \/ \E c \in Conns : Accept(c)
    \/ \E c \in Conns : Disconnect(c)
    \/ \E c \in Conns : \E t \in Texts : ReceiveSendMessage(c, t)
    \/ \E c \in Conns : BroadcastMessage(c)
    \/ \E c \in Conns : \E value \in BOOLEAN : ReceiveTyping(c, value)
    \/ \E c \in Conns : ChatEvent(c)
    \/ \E conv \in Convs : \E u \in Users : RemoveParticipant(conv, u)

SpecChat == Init /\ [][ChatNext]_vars

\* ------------------------------------------------------ the economy claims

\* C1: in every committed state every wallet's balance is >= 0, whatever
\* deposits, withdrawals, transfers and shop purchases ran and interleaved.
C1_BalanceNonNegative == \A w \in Wallets : balance[w] >= 0

\* a purchase has emptied a wallet and a later debit of it was refused
C1_Witness ==
    /\ purchases # <<>>
    /\ \E w \in AkiWallets : balance[w] = 0
    /\ last.status = "InsufficientFunds"

\* the ledger rows that a deposit or withdraw call would be a replay of
ReplayedRows(c) ==
    {i \in 1..Len(ledger) :
        /\ c.key # NoKey
        /\ ledger[i].key = c.key
        /\ ledger[i].wallet = c.wallet
        /\ ledger[i].amount = c.amount
        /\ ledger[i].tx_type = (IF c.op = "deposit" THEN DEPOSIT ELSE WITHDRAW)}

\* C2: a deposit or withdraw whose idempotency key already identifies a
\* ledger row of the same wallet, type and amount returns that row and
\* changes neither a balance nor the ledger.
C2_ReplayReturnsExisting ==
    [][\A p \in Procs :
        (/\ pc[p] = "idem"
         /\ pc'[p] # "idem"
         /\ call[p].op \in {"deposit", "withdraw"}
         /\ ReplayedRows(call[p]) # {})
        => (/\ pc'[p] = "done"
            /\ last'.status = "existing"
            /\ last'.row \in ReplayedRows(call[p])
            /\ balance' = balance
            /\ ledger' = ledger)]_vars

\* a keyed deposit or withdraw committed and the same call, made again, got its row back
C2_Witness ==
    /\ last.status = "existing"
    /\ last.op \in {"deposit", "withdraw"}
    /\ ledger[last.row].key = last.key
    /\ keyUses[last.key] = 1
    /\ net[ledger[last.row].wallet] = Signed(ledger[last.row])

\* C3: a non-null idempotency key is on at most one ledger row and on at
\* most one committed call, whatever operations used it; when a deposit or
\* withdraw that passed the existence check then loses the insert to a
\* concurrent call with the same key, exactly one of them has committed.
C3_KeyUsedOnce ==
    /\ \A k \in Keys : Cardinality(RowsWithKey(ledger, k)) <= 1 /\ keyUses[k] <= 1
    /\ (last.status = "IntegrityError" /\ last.op \in {"deposit", "withdraw"})
        => keyUses[last.key] = 1 /\ Cardinality(RowsWithKey(ledger, last.key)) = 1

\* two deposits with the same key both passed the existence check; one
\* committed and the other's insert was refused by the unique index
C3_Witness ==
    /\ last.status = "IntegrityError"
    /\ last.op = "deposit"
    /\ \E i \in RowsWithKey(ledger, last.key) : ledger[i].tx_type = DEPOSIT
    /\ \E w \in Wallets : net[w] > 0 /\ balance[w] = InitBalance[w] + net[w]

TransferPaired(l, i) ==
    LET r == l[i].related_tx
    IN /\ r \in 1..Len(l)
       /\ l[r].related_tx = i
       /\ l[r].amount = l[i].amount
       /\ l[r].wallet # l[i].wallet
       /\ {l[i].tx_type, l[r].tx_type} = {TRANSFER_OUT, TRANSFER_IN}

\* C4: in every committed state each TRANSFER_OUT row is linked both ways
\* with one TRANSFER_IN row of equal amount on another wallet and vice
\* versa, every balance is the signed sum of its wallet's ledger rows, and
\* a transfer that commits adds exactly its OUT row on the source wallet
\* and its IN row on the destination wallet.
C4_PairInv ==
    /\ \A i \in 1..Len(ledger) :
          ledger[i].tx_type \in {TRANSFER_OUT, TRANSFER_IN} => TransferPaired(ledger, i)
    /\ \A w \in Wallets : balance[w] = LedgerSum(ledger, w, Len(ledger))

C4_PairStep ==
    \A p \in Procs :
        (pc[p] = "commit" /\ pc'[p] = "done" /\ call[p].op = "transfer")
        => LET n == Len(ledger)
               c == call[p]
           IN /\ Len(ledger') = n + 2
              /\ SubSeq(ledger', 1, n) = ledger
              /\ ledger'[n + 1].tx_type = TRANSFER_OUT /\ ledger'[n + 1].wallet = c.wallet
              /\ ledger'[n + 2].tx_type = TRANSFER_IN /\ ledger'[n + 2].wallet = c.to
              /\ ledger'[n + 1].amount = c.amount /\ ledger'[n + 2].amount = c.amount
              /\ balance'[c.wallet] = balance[c.wallet] - c.amount
              /\ balance'[c.to] = balance[c.to] + c.amount

C4_TransferPair == [](C4_PairInv) /\ [][C4_PairStep]_vars

\* a transfer has committed
C4_Witness ==
    /\ last.op = "transfer"
    /\ last.status = "ok"
    /\ ledger[last.row].tx_type = TRANSFER_OUT
    /\ ledger[ledger[last.row].related_tx].tx_type = TRANSFER_IN

\* C5: two concurrent transfers never wait on each other in a cycle (the
\* claim derives this from the wallets being locked in ascending id order).
C5_NoLockCycle ==
    ~(\E p \in Procs : \E q \in Procs \ {p} :
        /\ call[p].op = "transfer" /\ call[q].op = "transfer"
        /\ call[p].wallet = call[q].to /\ call[p].to = call[q].wallet
        /\ Blocker(p) = q /\ Blocker(q) = p)

\* C6: no update is lost: every committed balance is the initial balance
\* plus the signed amounts of exactly the calls that committed.
C6_NoLostUpdate == \A w \in Wallets : balance[w] = InitBalance[w] + net[w]

\* one call is about to commit a new balance of a wallet while a concurrent
\* call on the same wallet waits for its row lock
C6_Witness ==
    \E p \in Procs : \E q \in Procs \ {p} :
        /\ pc[p] = "commit"
        /\ wbal[p].from # balance[call[p].wallet]
        /\ pc[q] = "lock"
        /\ Head(scan[q]) = call[p].wallet
        /\ lockOwner[call[p].wallet] = p

C8_TerminalStatusKept ==
    [][\A i \in RedIds(redemptions) :
        redemptions[i].status \in {APPLIED, CANCELLED, EXPIRED}
        => redemptions'[i].status = redemptions[i].status]_vars

\* C9: after apply_promo_after_payment_success has failed with
\* reservation_expired, the stored status of the redemption it found is EXPIRED.
C9_ExpiredApplyStoresExpired ==
    (plast.op = "apply" /\ plast.status = "reservation_expired")
    => redemptions[plast.red].status = EXPIRED

\* C10: the promo code's uses_count is the number of its redemptions whose
\* status is APPLIED; PENDING, CANCELLED and EXPIRED redemptions do not count.
C10_UsesCountIsApplied ==
    promo.uses_count = Cardinality({i \in RedIds(redemptions) : redemptions[i].status = APPLIED})

\* an apply has just turned a reservation into an APPLIED redemption while
\* another redemption of the promo code is not APPLIED
C10_Witness ==
    /\ plast.op = "apply"
    /\ plast.status = "ok"
    /\ redemptions[plast.red].status = APPLIED
    /\ redemptions[plast.red].context = "topup"
    /\ promo.uses_count >= 1
    /\ \E i \in RedIds(redemptions) : redemptions[i].status \in {PENDING, CANCELLED, EXPIRED}

\* a redemption granted now: it is APPLIED after the step and was not before
GrantedNow(i) ==
    /\ redemptions'[i].status = APPLIED
    /\ (i \in RedIds(redemptions) => redemptions[i].status # APPLIED)

\* C11: a reservation whose reserved_until lies before the time of the call
\* never becomes APPLIED, and a bonus or item is granted (a wallet, the
\* ledger or an inventory changes) only in a step that turns a redemption
\* whose TTL has not elapsed into an APPLIED one.
C11_ElapsedNeverApplied ==
    [][/\ \A i \in RedIds(redemptions) :
             (redemptions[i].status # APPLIED /\ redemptions[i].reserved_until # None
              /\ redemptions[i].reserved_until < now)
             => redemptions'[i].status # APPLIED
       /\ (balance' # balance \/ ledger' # ledger \/ inventory' # inventory)
            => \E i \in RedIds(redemptions') :
                  /\ GrantedNow(i)
                  /\ redemptions'[i].reserved_until # None => redemptions'[i].reserved_until >= now]_vars

\* a reservation is still PENDING after its TTL has elapsed and the apply of
\* its payment has just been refused as reservation_expired
C11_Witness ==
    /\ plast.op = "apply"
    /\ plast.status = "reservation_expired"
    /\ redemptions[plast.red].reserved_until < now
    /\ redemptions[plast.red].status = PENDING
    /\ balance = InitBalance
    /\ inventory = {}

\* ------------------------------------------------------- the level claims

\* the largest level of 0..30 whose cumulative threshold is <= xp
LargestLevelWithin(xp) ==
    CHOOSE l \in 0..MAX_LEVEL :
        /\ TOTAL_XP_TABLE[l] <= xp
        /\ \A m \in 0..MAX_LEVEL : TOTAL_XP_TABLE[m] <= xp => m <= l

\* C12: a call level_for_xp(xp) returns a level of 0..30, 0 when xp <= 0,
\* otherwise the largest level whose cumulative threshold is <= xp (30 from
\* the level-30 threshold on); of two calls the one with the larger xp does
\* not return the smaller level; level_for_xp(total_xp_for_level(L)) = L.
C12_LevelForXp ==
    LET q == levels[2]
        p == levels[1]
    IN q.level # None =>
        /\ q.level \in 0..MAX_LEVEL
        /\ q.xp <= 0 => q.level = 0
        /\ q.xp > 0 => q.level = LargestLevelWithin(q.xp)
        /\ q.xp >= TOTAL_XP_TABLE[MAX_LEVEL] => q.level = MAX_LEVEL
        /\ (p.level # None /\ p.xp <= q.xp) => p.level <= q.level
        /\ \A l \in 0..MAX_LEVEL : q.xp = total_xp_for_level(l) => q.level = l

\* the function was called just below a threshold and then on it
C12_Witness ==
    /\ levels[1].level = 6 /\ levels[1].xp = TOTAL_XP_TABLE[7] - 1
    /\ levels[2].level = 7 /\ levels[2].xp = TOTAL_XP_TABLE[7]

\* -------------------------------------------------------- the chat claims

\* the events a connection has been handed: queued for it or sent to its client
EventsOf(c) == {chan[c][i] : i \in 1..Len(chan[c])} \cup {sent[c][i] : i \in 1..Len(sent[c])}

\* C13: a connection is in a conversation's group (and accepted) only if
\* its user is authenticated and was a Participant of that conversation when
\* connect() asked; any other connection is closed with code 4403, is never
\* accepted, is in no group and is handed no event; a connection is handed
\* only events of its own conversation.
C13_OnlyParticipantsJoin ==
    \A c \in Conns :
        /\ \A g \in Convs : c \in group[g]
              => conn[c].conv = g /\ conn[c].user # Anonymous /\ conn[c].member
        /\ conn[c].state \in {"joined", "open", "closed"}
              => conn[c].user # Anonymous /\ conn[c].member
        /\ (conn[c].state \notin {"none", "connecting"}
             /\ ~(conn[c].user # Anonymous /\ conn[c].member))
              => /\ conn[c].state = "rejected"
                 /\ conn[c].code = 4403
                 /\ \A g \in Convs : c \notin group[g]
                 /\ EventsOf(c) = {}
        /\ \A e \in EventsOf(c) : e.conv = conn[c].conv

\* an authenticated user who is no Participant of the conversation was
\* refused while a participant's connection got a message of it
C13_Witness ==
    \E c \in Conns : \E d \in Conns :
        /\ conn[c].state = "rejected"
        /\ conn[c].user # Anonymous
        /\ conn[d].state = "open"
        /\ conn[d].conv = conn[c].conv
        /\ \E i \in 1..Len(sent[d]) : sent[d][i].type = "message"

\* only spaces, or nothing
Blank(t) == \A i \in 1..Len(t) : t[i] = " "

C14_StoredBeforeBroadcast ==
    \A c \in Conns : \A e \in EventsOf(c) :
        e.type = "message"
        => /\ e.id \in 1..Len(messages)
           /\ messages[e.id].text = e.text
           /\ messages[e.id].conv = e.conv
           /\ messages[e.id].sender = e.user

C14_BlankStoresNothing ==
    (nframes' = nframes + 1 /\ clast'.action = "send_message" /\ Blank(clast'.text))
    => messages' = messages /\ chan' = chan /\ job' = job /\ sent' = sent

\* C14: every 'message' event handed to a connection carries the id and
\* the text of a stored Message row of its conversation and sender, and a
\* send_message frame whose text is empty or only spaces stores no Message
\* and broadcasts nothing.
C14_MessageEvents == [](C14_StoredBeforeBroadcast) /\ [][C14_BlankStoresNothing]_vars

\* a message was stored and broadcast, and the frame received last had a
\* text of spaces only
C14_Witness ==
    /\ clast.action = "send_message"
    /\ clast.text = <<" ">>
    /\ Len(messages) = 1
    /\ \E c \in Conns : \E i \in 1..Len(sent[c]) :
          sent[c][i].type = "message" /\ sent[c][i].id = 1

\* -------------------------------------------------------- the shop claims

C15_WitnessOwned ==
    /\ last.op = "purchase"
    /\ last.status = "already_owned"
    /\ purchases = <<>>

\* the PENDING reservations whose TTL has not elapsed
UnexpiredPending ==
    {i \in RedIds(redemptions) :
        /\ redemptions[i].status = PENDING
        /\ redemptions[i].reserved_until # None
        /\ redemptions[i].reserved_until >= now}

\* C16: uses_count plus the number of unexpired PENDING reservations of the
\* promo code is at most max_total_uses.
C16_NotOversubscribed ==
    promo.uses_count + Cardinality(UnexpiredPending) <= promo.max_total_uses

\* C17: uses_count of the promo code never exceeds max_total_uses, also when
\* topup confirmations and manual redemptions are in flight at the same time.
C17_UsesWithinLimit == promo.uses_count <= promo.max_total_uses

\* a manual redemption has just taken the last use while a confirmation that
\* found its reservation PENDING waits for the promo row
C17_Witness ==
    /\ promo.uses_count = promo.max_total_uses
    /\ plast.op = "redeem"
    /\ plast.status = "ok"
    /\ \E q \in Procs : /\ pjob[q].op = "apply"
                        /\ pjob[q].at = "promo"
                        /\ redemptions[pjob[q].red].status = PENDING

\* C18: no user holds more APPLIED redemptions of the promo code than
\* max_uses_per_user, in any order and interleaving of topup confirmations
\* and manual redemptions.
C18_PerUserWithinLimit ==
    \A u \in Users :
        Cardinality({i \in RedIds(redemptions) :
                        redemptions[i].user = u /\ redemptions[i].status = APPLIED})
            <= promo.max_uses_per_user

\* a user's manual redemption has just used up the user's limit, the code's
\* limit is not reached, and a confirmation for the same user waits for the
\* promo row
C18_Witness ==
    /\ plast.op = "redeem"
    /\ plast.status = "ok"
    /\ promo.uses_count < promo.max_total_uses
    /\ Cardinality({i \in RedIds(redemptions) :
                       redemptions[i].user = plast.user /\ redemptions[i].status = APPLIED})
          = promo.max_uses_per_user
    /\ \E q \in Procs : /\ pjob[q].op = "apply"
                        /\ pjob[q].at = "promo"
                        /\ pjob[q].user = plast.user
                        /\ redemptions[pjob[q].red].status = PENDING

\* C19: an apply_promo_after_payment_success for a payment that already
\* has an APPLIED redemption (no other redemption of the payment was made at
\* the same instant) returns that redemption and changes neither uses_count,
\* nor a redemption, nor a wallet, the ledger or an inventory.
C19_ApplyIdempotent ==
    [][\A i \in RedIds(redemptions) :
        (/\ plast'.op = "apply"
         /\ now' = now
         /\ plast'.red \in RedIds(redemptions)
         /\ redemptions[i].status = APPLIED
         /\ redemptions[i].payment_id \in PaymentIds
         /\ \A j \in WithPayment(redemptions, redemptions[i].payment_id) \ {i} :
               redemptions[j].redeemed_at # redemptions[i].redeemed_at
         /\ redemptions[plast'.red].payment_id = redemptions[i].payment_id)
        => (/\ plast'.red = i
            /\ plast'.status = "ok"
            /\ promo' = promo
            /\ redemptions' = redemptions
            /\ balance' = balance
            /\ ledger' = ledger
            /\ inventory' = inventory)]_vars

\* the PENDING reservations of user u whose reserved_until is still ahead
HeldBy(u) ==
    {i \in RedIds(redemptions) :
        /\ redemptions[i].user = u
        /\ redemptions[i].status = PENDING
        /\ redemptions[i].reserved_until # None
        /\ redemptions[i].reserved_until > now}

\* C20: a reserve_promo_for_topup by a user who holds an unexpired PENDING
\* reservation of the promo code returns one of these and creates no row.
C20_ReserveReturnsPending ==
    [][(plast'.op = "reserve" /\ now' = now /\ HeldBy(plast'.user) # {})
        => (/\ plast'.status = "ok"
            /\ plast'.red \in HeldBy(plast'.user)
            /\ Len(redemptions') = Len(redemptions))]_vars

\* ------------------------------------------- the ledger claims, continued

\* the ledger rows that carry the call's idempotency key and are not the
\* row of this very operation: another wallet, type or amount
ForeignRows(c) ==
    {i \in 1..Len(ledger) :
        /\ c.key # NoKey
        /\ ledger[i].key = c.key
        /\ \/ ledger[i].wallet # c.wallet
           \/ ledger[i].amount # c.amount
           \/ ledger[i].tx_type # (IF c.op = "deposit" THEN DEPOSIT
                                   ELSE IF c.op = "withdraw" THEN WITHDRAW ELSE TRANSFER_OUT)}

\* C21: a deposit, withdraw or transfer whose idempotency key already
\* identifies a ledger row of another wallet, operation type or amount ends
\* at its idempotency check with ValidationError and changes neither a
\* balance nor the ledger.
C21_KeyReuseRefused ==
    [][\A p \in Procs :
        (/\ pc[p] = "idem"
         /\ pc'[p] # "idem"
         /\ call[p].op \in {"deposit", "withdraw", "transfer"}
         /\ ForeignRows(call[p]) # {})
        => (/\ pc'[p] = "done"
            /\ last'.status = "ValidationError"
            /\ balance' = balance
            /\ ledger' = ledger)]_vars

\* the TRANSFER_OUT rows that a transfer call would be a replay of
ReplayedOut(c) ==
    {i \in 1..Len(ledger) :
        /\ c.key # NoKey
        /\ ledger[i].key = c.key
        /\ ledger[i].tx_type = TRANSFER_OUT
        /\ ledger[i].wallet = c.wallet
        /\ ledger[i].amount = c.amount}

\* a transfer whose idem_out is on a TRANSFER_OUT row of its source wallet
\* and amount ends at the idempotency check with that row, whose related_tx
\* is its TRANSFER_IN row, and changes neither a balance nor the ledger
C22_ReplayStep ==
    \A p \in Procs :
        (/\ pc[p] = "idem"
         /\ pc'[p] # "idem"
         /\ call[p].op = "transfer"
         /\ ReplayedOut(call[p]) # {})
        => (/\ pc'[p] = "done"
            /\ last'.status = "existing"
            /\ last'.row \in ReplayedOut(call[p])
            /\ ledger[ledger[last'.row].related_tx].tx_type = TRANSFER_IN
            /\ ledger[ledger[last'.row].related_tx].related_tx = last'.row
            /\ balance' = balance
            /\ ledger' = ledger)

\* no idem_out key is on two TRANSFER_OUT rows, and every TRANSFER_OUT row
\* has one TRANSFER_IN row pointing at it
C22_OnePair ==
    /\ \A k \in Keys :
          Cardinality({i \in RowsWithKey(ledger, k) : ledger[i].tx_type = TRANSFER_OUT}) <= 1
    /\ \A i \in 1..Len(ledger) :
          ledger[i].tx_type = TRANSFER_OUT
          => Cardinality({j \in 1..Len(ledger) :
                             ledger[j].tx_type = TRANSFER_IN /\ ledger[j].related_tx = i}) = 1

\* C22: a transfer called again with an idem_out that already identifies a
\* TRANSFER_OUT row of the same source wallet and amount returns the original
\* OUT/IN pair and moves no funds, and no replay, sequential or concurrent,
\* adds a second pair of rows for the key.
C22_TransferReplay == [](C22_OnePair) /\ [][C22_ReplayStep]_vars

\* a keyed transfer committed once and the same call, made again, got its
\* OUT row back: the wallets hold what the one transfer left
C22_Witness ==
    /\ last.op = "transfer"
    /\ last.status = "existing"
    /\ ledger[last.row].tx_type = TRANSFER_OUT
    /\ ledger[last.row].key = last.key
    /\ keyUses[last.key] = 1
    /\ net[ledger[last.row].wallet] = 0 - ledger[last.row].amount

\* ------------------------------------------------ the shop claims, continued

\* C23: limited_sold of the limited item never exceeds limited_total,
\* whatever purchases ran, also when different users buy the last copy at
\* the same time.
C23_SoldWithinLimit == limited_sold <= Item.limited_total

\* a user has just bought the last copy at the view while the request of
\* another user for it is in flight, waiting for the offer
C23_Witness ==
    /\ limited_sold = Item.limited_total
    /\ last.op = "purchase"
    /\ last.status = "ok"
    /\ \E q \in Procs : /\ pc[q] = "offer"
                        /\ call[q].op = "purchase"
                        /\ ShopKey(wallet_user(call[q].wallet)) # last.key

\* the Purchase rows of a user
PurchasesOf(u) == {i \in 1..Len(purchases) : purchases[i].user = u}

\* C24: whatever purchase requests a user made for the offer, one after the
\* other or at the same time, the user's wallet carries at most one
\* withdrawal, the user has at most one Purchase row, has the Inventory row
\* exactly when the Purchase row exists, and has been debited the price once.
C24_OnePurchasePerUser ==
    \A u \in Users :
        LET w == aki_wallet(u)
            withdrawals == {i \in 1..Len(ledger) : ledger[i].wallet = w /\ ledger[i].tx_type = WITHDRAW}
        IN /\ Cardinality(withdrawals) <= 1
           /\ Cardinality(PurchasesOf(u)) <= 1
           /\ (u \in inventory) <=> (PurchasesOf(u) # {})
           /\ Cardinality(withdrawals) = Cardinality(PurchasesOf(u))
           /\ \A i \in PurchasesOf(u) :
                 /\ purchases[i].transaction \in withdrawals
                 /\ balance[w] = InitBalance[w] - purchases[i].price_aki

\* a user's first request bought the item and the same user's second request
\* at the view, with copies still on sale, was refused
C24_Witness ==
    /\ Len(purchases) = 1
    /\ limited_sold < Item.limited_total
    /\ last.op = "purchase"
    /\ last.status = "already_owned"
    /\ last.key = ShopKey(purchases[1].user)

\* ------------------------------------------------------- the xp claim

\* add_xp on a Profile object that holds what is stored: the stored xp does
\* not decrease, grows by the amount up to the threshold of level 30, and is
\* left alone when the amount is <= 0; the object's own xp never decreases
XpCallOnStoredRow ==
    [][nxp' # nxp =>
        LET r == xlast'.req
            u == profile[r].user
            amount == xlast'.amount
        IN /\ profile'[r].xp >= profile[r].xp
           /\ profile[r].xp = profile_xp[u]
              => /\ profile_xp'[u] >= profile_xp[u]
                 /\ \A v \in Users \ {u} : profile_xp'[v] = profile_xp[v]
                 /\ amount <= 0 => profile_xp' = profile_xp
                 /\ amount > 0 =>
                       profile_xp'[u] = Min(profile_xp[u] + amount, TOTAL_XP_TABLE[MAX_LEVEL])]_vars

\* C25: through every add_xp call the stored xp of every profile stays at or
\* below the cumulative threshold of level 30 and does not decrease, and a
\* call with an amount <= 0 leaves it unchanged.
C25_AddXp ==
    [][nxp' # nxp =>
        /\ \A u \in Users : /\ profile_xp'[u] <= TOTAL_XP_TABLE[MAX_LEVEL]
                            /\ profile_xp'[u] >= profile_xp[u]
        /\ xlast'.amount <= 0 => profile_xp' = profile_xp]_vars

====
